---- MODULE Spec2Model ----
(***************************************************************************)
(* A model of chttp's asynchronous request manager (src/manager.rs) and    *)
(* of the client calls that feed it (src/client.rs).                       *)
(*                                                                         *)
(* One background thread (the Reactor, `Manager::run`) owns the curl multi *)
(* handle and the slab of active requests.  Other threads talk to it       *)
(* through an mpsc queue of `Message`s and a wake pipe.                     *)
(*                                                                         *)
(* Six specifications are given.                                           *)
(*   Spec          the source as written: the `Begin` arm of               *)
(*                 `handle_pending_messages` is `unimplemented!()`.        *)
(*   SpecActivate  the same program with the `Begin` arm bound to          *)
(*                 `Manager::activate_request` and with                    *)
(*                 `Manager::remove_handle` callable between iterations,   *)
(*                 so that the code of those two operations and of the     *)
(*                 completion branch of `dispatch` is exercised.           *)
(*   SpecManager   the Reactor of SpecActivate and its table of handles    *)
(*                 alone, without the callers and the engine's callbacks.  *)
(*   SpecLive      Spec with the Reactor thread kept running (fairness).   *)
(*   SpecHeader    the header and write callbacks of one transfer, handed  *)
(*                 any sequence of lines and chunks.                       *)
(*   SpecPool      the connection pool of the synchronous variant, as the  *)
(*                 design describes it.                                    *)
(***************************************************************************)
EXTENDS Integers, Sequences, FiniteSets, TLC

(***************************************************************************)
(* Bounds of the model.                                                    *)
(***************************************************************************)
\* Number of requests the callers submit.
MaxReq == 2
\* Capacity given to the (unbounded) mpsc command queue.
MaxQueue == 2
\* Capacity given to the wake pipe (a write to a full pipe blocks).
MaxPipe == 2
\* Bytes of response body the engine delivers per transfer.
MaxBody == 2
\* Number of lines the engine hands to the header callback of one transfer.
MaxLines == 3
\* Number of sends made through the pool.
MaxStreams == 3
\* High-water mark of the design's backpressure contract (the source
\* defines none): a full body exceeds it.
HighWaterMark == MaxBody - 1

\* src/manager.rs:17
DEFAULT_TIMEOUT_MS == 1000

Reqs == 1..MaxReq
\* The slab keys MaxReq requests can occupy.
Tokens == 0..(MaxReq - 1)

(***************************************************************************)
(* Slab<ActiveRequest>: the slab crate's free-list arena, as used by       *)
(* activate_request / remove_handle.  entries[k+1] is slot k: either       *)
(* occupied by a value, or vacant and holding the next free key.           *)
(***************************************************************************)
SlabNew == [entries |-> <<>>, next |-> 0, len |-> 0]

SlabContains(s, key) ==
    /\ key >= 0
    /\ key < Len(s.entries)
    /\ s.entries[key + 1].occ

SlabGet(s, key) == s.entries[key + 1].val

\* Slab::vacant_entry().key()
SlabVacantKey(s) == s.next

\* VacantEntry::insert
SlabInsertAt(s, key, v) ==
    IF key = Len(s.entries)
    THEN [entries |-> Append(s.entries, [occ |-> TRUE, val |-> v]),
          next    |-> key + 1,
          len     |-> s.len + 1]
    ELSE [entries |-> [s.entries EXCEPT ![key + 1] = [occ |-> TRUE, val |-> v]],
          next    |-> s.entries[key + 1].val,
          len     |-> s.len + 1]

\* Slab::remove (the caller checks SlabContains: an invalid key panics)
SlabRemove(s, key) ==
    [entries |-> [s.entries EXCEPT ![key + 1] = [occ |-> FALSE, val |-> s.next]],
     next    |-> key,
     len     |-> s.len - 1]

(***************************************************************************)
(* Bytes and strings.  A line handed to the header callback is a sequence  *)
(* of bytes; an ASCII byte is written as a one-character string and        *)
(* BadByte stands for a byte that cannot occur in UTF-8 text (0xFF).       *)
(***************************************************************************)
BadByte == "xFF"

Digits == <<"0", "1", "2", "3", "4", "5", "6", "7", "8", "9">>

IsDigit(c) == \E i \in 1..10 : Digits[i] = c

DigitVal(c) == (CHOOSE i \in 1..10 : Digits[i] = c) - 1

Upper == <<"A", "B", "C", "D", "E", "F", "G", "H", "I", "J", "K", "L", "M",
           "N", "O", "P", "Q", "R", "S", "T", "U", "V", "W", "X", "Y", "Z">>

LowerOf == <<"a", "b", "c", "d", "e", "f", "g", "h", "i", "j", "k", "l", "m",
             "n", "o", "p", "q", "r", "s", "t", "u", "v", "w", "x", "y", "z">>

IsUpper(c) == \E i \in 1..26 : Upper[i] = c

IsLower(c) == \E i \in 1..26 : LowerOf[i] = c

ToLower(c) == IF IsUpper(c) THEN LowerOf[CHOOSE i \in 1..26 : Upper[i] = c] ELSE c

\* char::is_whitespace, on the bytes of the model
IsWhitespace(c) == c \in {" ", "\t", "\n", "\r", "\f"}

\* str::from_utf8(data).is_ok()
IsUtf8(data) == \A i \in 1..Len(data) : data[i] # BadByte

\* str::starts_with
StartsWith(line, prefix) ==
    /\ Len(line) >= Len(prefix)
    /\ SubSeq(line, 1, Len(prefix)) = prefix

\* str::find(":"): the 0-based position of the first colon, -1 for None
FindColon(line) ==
    IF \E i \in 1..Len(line) : line[i] = ":"
    THEN (CHOOSE i \in 1..Len(line) :
              /\ line[i] = ":"
              /\ \A j \in 1..(i - 1) : line[j] # ":") - 1
    ELSE -1

RECURSIVE TrimStart(_)
TrimStart(s) ==
    IF s # <<>> /\ IsWhitespace(Head(s)) THEN TrimStart(Tail(s)) ELSE s

RECURSIVE TrimEnd(_)
TrimEnd(s) ==
    IF s # <<>> /\ IsWhitespace(s[Len(s)])
    THEN TrimEnd(SubSeq(s, 1, Len(s) - 1))
    ELSE s

\* str::trim
Trim(s) == TrimEnd(TrimStart(s))

HTTP_PREFIX == <<"H", "T", "T", "P", "/">>
HTTP_2_0 == <<"H", "T", "T", "P", "/", "2", ".", "0">>
HTTP_1_1 == <<"H", "T", "T", "P", "/", "1", ".", "1">>
HTTP_1_0 == <<"H", "T", "T", "P", "/", "1", ".", "0">>
HTTP_0_9 == <<"H", "T", "T", "P", "/", "0", ".", "9">>
CRLF == <<"\r", "\n">>

\* http::Version::default()
VersionDefault == "HTTP_11"

\* The match on &line[0..8] (manager.rs:216-222)
ParseVersion(tok) ==
    CASE tok = HTTP_2_0 -> "HTTP_2"
      [] tok = HTTP_1_1 -> "HTTP_11"
      [] tok = HTTP_1_0 -> "HTTP_10"
      [] tok = HTTP_0_9 -> "HTTP_09"
      [] OTHER -> VersionDefault

\* http::StatusCode::from_str on the three bytes &line[9..12]: 0 for Err.
\* (http 0.1: three ASCII digits, the first one in 1..5.)
StatusFromStr(s) ==
    IF /\ Len(s) = 3
       /\ \A i \in 1..3 : IsDigit(s[i])
       /\ DigitVal(s[1]) >= 1
       /\ DigitVal(s[1]) <= 5
    THEN DigitVal(s[1]) * 100 + DigitVal(s[2]) * 10 + DigitVal(s[3])
    ELSE 0

(***************************************************************************)
(* http::response::Builder, as far as the header callback drives it:       *)
(* status, version, a header map and the builder's sticky error.           *)
(***************************************************************************)
BuilderNew == [status |-> 200, version |-> VersionDefault, headers |-> <<>>, err |-> FALSE]

\* http::header::HeaderName::from_bytes accepts a non-empty token
IsTokenChar(c) == IsUpper(c) \/ IsLower(c) \/ IsDigit(c) \/ c = "-"

ValidHeaderName(name) ==
    /\ name # <<>>
    /\ \A i \in 1..Len(name) : IsTokenChar(name[i])

\* http::header::HeaderValue::from_str rejects control characters
ValidHeaderValue(value) ==
    \A i \in 1..Len(value) : value[i] \notin {"\r", "\n", "\f", BadByte}

LowerName(name) == [i \in 1..Len(name) |-> ToLower(name[i])]

\* HeaderMap::append: a name keeps all its values, in the order appended
HeaderMapAppend(h, name, value) ==
    IF \E i \in 1..Len(h) : h[i].name = name
    THEN [i \in 1..Len(h) |->
              IF h[i].name = name
              THEN [name |-> name, values |-> Append(h[i].values, value)]
              ELSE h[i]]
    ELSE Append(h, [name |-> name, values |-> <<value>>])

\* Builder::version
BuilderVersion(b, v) == IF b.err THEN b ELSE [b EXCEPT !.version = v]

\* Builder::status
BuilderStatus(b, code) == IF b.err THEN b ELSE [b EXCEPT !.status = code]

\* Builder::header
BuilderHeader(b, name, value) ==
    IF b.err THEN b
    ELSE IF ValidHeaderName(name) /\ ValidHeaderValue(value)
         THEN [b EXCEPT !.headers = HeaderMapAppend(b.headers, LowerName(name), value)]
         ELSE [b EXCEPT !.err = TRUE]

(***************************************************************************)
(* TransferState and its curl::easy::Handler callbacks.                    *)
(***************************************************************************)
TransferStateNew == [response |-> BuilderNew, header_complete |-> FALSE, buffer |-> 0]

\* The last statement of the callback made to accept what it cannot parse.
header_unknown_line_accepted(ts) == [ret |-> "true", ts |-> ts]

\* "Unknown header line we don't know how to parse": false (manager.rs:250-251)
header_unknown_line(ts) == [ret |-> "false", ts |-> ts]

\* Handler::header (manager.rs:203-252).  ret is "true", "false", or "panic"
\* when a slice index is out of range.
header(ts, data) ==
    IF ~IsUtf8(data) THEN [ret |-> "false", ts |-> ts]
    ELSE IF StartsWith(data, HTTP_PREFIX)
    THEN IF Len(data) < 8 THEN [ret |-> "panic", ts |-> ts]
         ELSE LET v  == ParseVersion(SubSeq(data, 1, 8))
                  t1 == [ts EXCEPT !.response = BuilderVersion(ts.response, v)]
              IN  IF Len(data) < 12 THEN [ret |-> "panic", ts |-> t1]
                  ELSE LET code == StatusFromStr(SubSeq(data, 10, 12))
                       IN  IF code = 0 THEN [ret |-> "false", ts |-> t1]
                           ELSE [ret |-> "true",
                                 ts  |-> [t1 EXCEPT !.response = BuilderStatus(t1.response, code)]]
    ELSE IF FindColon(data) >= 0
    THEN LET pos   == FindColon(data)
             name  == SubSeq(data, 1, pos)
             value == SubSeq(data, pos + 1, Len(data))
         IN  IF Len(value) < 2 THEN [ret |-> "panic", ts |-> ts]
             ELSE [ret |-> "true",
                   ts  |-> [ts EXCEPT !.response =
                               BuilderHeader(ts.response, name, Trim(SubSeq(value, 3, Len(value))))]]
    ELSE IF data = CRLF
    THEN [ret |-> "true", ts |-> [ts EXCEPT !.header_complete = TRUE]]
    ELSE header_unknown_line(ts)

\* Handler::write (manager.rs:262-264): ByteBuffer::push appends the chunk
\* and reports its length; the callback never asks the engine to pause.
write(ts, n) == [ret |-> n, pause |-> FALSE, ts |-> [ts EXCEPT !.buffer = ts.buffer + n]]

(***************************************************************************)
(* State.                                                                  *)
(***************************************************************************)
VARIABLES
    queue,          \* mpsc channel message_sender -> message_receiver
    pipe,           \* unread wake bytes in the notify pipe
    pc,             \* where the Reactor thread stands in run/dispatch
    timeout,        \* dispatch's local `timeout`, in ms
    received_read,  \* wait_fds[0].received_read(), from wait until it is read
    handles,        \* Manager.handles
    multi,          \* each Easy2<TransferState>, and what the engine knows of it
    chan,           \* the oneshot completion channel of each request
    cpc,            \* where the caller of Client::send stands, per request
    upc,            \* where the sender of Unpause messages stands
    stream,         \* the thread reading from a TransferStream
    pending,        \* commands queued when draining started, not yet processed
    last,           \* the message the current drain matched last (try_recv's Ok)
    cb,             \* one TransferState driven by the engine's callbacks alone
    pool            \* the connection pool of the synchronous variant

vars == <<queue, pipe, pc, timeout, received_read, handles, multi,
          chan, cpc, upc, stream, pending, last, cb, pool>>

\* Message::Begin(IncomingRequest) and Message::Unpause(Token)
Begin(r) == [type |-> "Begin", arg |-> r]

Unpause(token) == [type |-> "Unpause", arg |-> token]

NoMessage == [type |-> "none", arg |-> 0]

\* IncomingRequest::new(): an easy handle the engine does not know yet
EasyNew == [st |-> "new", res |-> "ok", token |-> -1, pos |-> 0, body |-> 0, paused |-> FALSE,
            ts |-> TransferStateNew]

\* An easy handle that was dropped ("dropped") or taken out of the engine and
\* then dropped ("removed"): nothing of it is left but that fact.
EasyGone(st) == [EasyNew EXCEPT !.st = st]

\* The response the engine plays to a transfer, and a line that is none of
\* status line, header line or terminator.
ScriptStatus == <<"H", "T", "T", "P", "/", "1", ".", "1", " ", "2", "0", "4", " ", "O", "K", "\r", "\n">>
ScriptHeader == <<"A", ":", " ", "b", "\r", "\n">>
Script == <<ScriptStatus, ScriptHeader, CRLF>>
Garbage == <<"x", "\r", "\n">>

\* TransferState::new() before any callback: no callback has returned yet,
\* no line was received.
CallbacksNew == [ts |-> TransferStateNew, ret |-> "none", lines |-> <<>>]

\* An empty pool: no Transport created yet, no Stream alive.
PoolNew == [idle |-> <<>>, created |-> 0, streams |-> <<>>, alive |-> TRUE]

Init ==
    /\ queue = <<>>
    /\ pipe = 0
    /\ pc = "get_timeout"
    /\ timeout = 0
    /\ received_read = FALSE
    /\ handles = SlabNew
    /\ multi = [r \in Reqs |-> EasyNew]
    /\ chan = [r \in Reqs |-> "none"]
    /\ cpc = [r \in Reqs |-> "idle"]
    /\ upc = "idle"
    /\ stream = "ready"
    /\ pending = <<>>
    /\ last = NoMessage
    /\ cb = CallbacksNew
    /\ pool = PoolNew

\* The Reactor thread is alive (it has not unwound from a panic).
ReactorAlive == pc # "panicked"

\* Requests whose easy handle is registered with the multi handle.
Registered == {r \in Reqs : multi[r].st \in {"running", "done", "msgread"}}

Running == {r \in Reqs : multi[r].st = "running"}

\* A ManagerHandle::send is between its two statements (send takes
\* &mut self: one call at a time).
SendInProgress == upc = "notify" \/ \E r \in Reqs : cpc[r] = "notify"

(***************************************************************************)
(* The Reactor thread unwinds from a panic: the closure of thread::spawn   *)
(* drops the Manager, and with it the receiver (and every queued message), *)
(* the active handles and the read end of the pipe.  A dropped request     *)
(* drops the completion sender that came with it.                          *)
(***************************************************************************)
DroppedByUnwind(r, also) ==
    r \in also \/ multi[r].st \in {"queued", "running", "done", "msgread"}

Unwind(also) ==
    /\ pc' = "panicked"
    /\ queue' = <<>>
    /\ pipe' = 0
    /\ handles' = SlabNew
    /\ multi' = [r \in Reqs |->
                    IF DroppedByUnwind(r, also) THEN EasyGone("dropped") ELSE multi[r]]
    /\ chan' = [r \in Reqs |->
                   IF DroppedByUnwind(r, also) /\ chan[r] = "open" THEN "canceled"
                   ELSE chan[r]]

(***************************************************************************)
(* Manager::dispatch (manager.rs:86-118), one action per blocking call or  *)
(* loop iteration.  `run` ignores dispatch's result and calls it again.    *)
(***************************************************************************)
\* multi.get_timeout()?.unwrap_or(DEFAULT_TIMEOUT_MS)
GetTimeoutErr ==
    /\ pc = "get_timeout"
    /\ pc' = "get_timeout"
    /\ UNCHANGED <<queue, pipe, timeout, received_read, handles, multi,
                   chan, cpc, upc, stream, pending, last, cb, pool>>

GetTimeoutOk ==
    /\ pc = "get_timeout"
    /\ \E t \in {0, DEFAULT_TIMEOUT_MS} : timeout' = t
    /\ pc' = "wait"
    /\ UNCHANGED <<queue, pipe, received_read, handles, multi,
                   chan, cpc, upc, stream, pending, last, cb, pool>>

\* multi.wait(&mut self.wait_fds, timeout)?: returns on readiness or when the
\* timeout passes; the pipe's read end is reported readable iff it holds bytes.
WaitErr ==
    /\ pc = "wait"
    /\ pc' = "get_timeout"
    /\ timeout' = 0
    /\ UNCHANGED <<queue, pipe, received_read, handles, multi,
                   chan, cpc, upc, stream, pending, last, cb, pool>>

WaitOk ==
    /\ pc = "wait"
    /\ received_read' = (pipe > 0)
    /\ pc' = "notify"
    /\ timeout' = 0
    /\ UNCHANGED <<queue, pipe, handles, multi, chan, cpc, upc, stream,
                   pending, last, cb, pool>>

\* if received_read() { let _ = notify_reader.read(&mut [0; 1]); }
NotifyRead(p, rr) == IF rr /\ p > 0 THEN p - 1 ELSE p

ConsumeNotify ==
    /\ pc = "notify"
    /\ pipe' = NotifyRead(pipe, received_read)
    /\ received_read' = FALSE
    /\ pc' = "recv"
    /\ pending' = queue
    /\ UNCHANGED <<queue, timeout, handles, multi, chan, cpc, upc, stream,
                   last, cb, pool>>

(***************************************************************************)
(* Manager::handle_pending_messages (manager.rs:120-131): one action per   *)
(* try_recv.                                                               *)
(***************************************************************************)
\* The snapshot taken when draining started loses the command just dequeued.
Processed(p) == IF p = <<>> THEN p ELSE Tail(p)

\* Err(TryRecvError::Empty) => break
RecvEmpty ==
    /\ pc = "recv"
    /\ queue = <<>>
    /\ pc' = "perform"
    /\ last' = NoMessage
    /\ UNCHANGED <<queue, pipe, timeout, received_read, handles, multi,
                   chan, cpc, upc, stream, pending, cb, pool>>

\* The arm with its commented-out body restored: indexing the slab panics
\* on a key that is not occupied.
UnpauseArmIndexed(h, token) == [panic |-> ~SlabContains(h, token), handles |-> h]

\* Ok(Message::Unpause(token)) => { /* self.handles[token.0].unpause() */ }
UnpauseArm(h, token) == [panic |-> FALSE, handles |-> h]

RecvUnpause ==
    /\ pc = "recv"
    /\ queue # <<>>
    /\ Head(queue).type = "Unpause"
    /\ LET out == UnpauseArm(handles, Head(queue).arg)
       IN  IF out.panic
           THEN Unwind({})
           ELSE /\ queue' = Tail(queue)
                /\ handles' = out.handles
                /\ UNCHANGED <<pc, pipe, multi, chan>>
    /\ pending' = Processed(pending)
    /\ last' = Head(queue)
    /\ UNCHANGED <<timeout, received_read, cpc, upc, stream, cb, pool>>

\* Ok(Message::Begin(_)) => unimplemented!()
RecvBegin ==
    /\ pc = "recv"
    /\ queue # <<>>
    /\ Head(queue).type = "Begin"
    /\ Unwind({Head(queue).arg})
    /\ pending' = Processed(pending)
    /\ last' = Head(queue)
    /\ UNCHANGED <<timeout, received_read, cpc, upc, stream, cb, pool>>

(***************************************************************************)
(* Manager::activate_request (manager.rs:133-146) on the manager's         *)
(* handles `h` and the engine's handles `m`, for the request r.  outcome   *)
(* says which of the two fallible engine calls fails, if any; on failure   *)
(* the request is dropped and nothing was inserted.                        *)
(***************************************************************************)
activate_request(h, m, r, outcome) ==
    IF outcome = "add2_err"
    THEN [ok |-> FALSE, handles |-> h, multi |-> [m EXCEPT ![r] = EasyGone("dropped")]]
    ELSE LET token == SlabVacantKey(h)
         IN  IF outcome = "set_token_err"
             THEN [ok |-> FALSE, handles |-> h, multi |-> [m EXCEPT ![r] = EasyGone("dropped")]]
             ELSE [ok      |-> TRUE,
                   handles |-> SlabInsertAt(h, token, r),
                   multi   |-> [m EXCEPT ![r].st = "running", ![r].token = token]]

(***************************************************************************)
(* Manager::remove_handle (manager.rs:148-153).  Slab::remove panics on a  *)
(* key that is not occupied.  multi.remove2 takes the handle out of the    *)
(* engine, which forgets any completion message it held for it.            *)
(***************************************************************************)
\* remove_handle without multi.remove2: the entry goes, the engine keeps
\* the handle.
remove_handle_keeps_engine_handle(h, m, token) ==
    IF ~SlabContains(h, token)
    THEN [panic |-> TRUE, handles |-> h, multi |-> m]
    ELSE [panic |-> FALSE, handles |-> SlabRemove(h, token), multi |-> m]

remove_handle(h, m, token) ==
    IF ~SlabContains(h, token)
    THEN [panic |-> TRUE, handles |-> h, multi |-> m]
    ELSE [panic   |-> FALSE,
          handles |-> SlabRemove(h, token),
          multi   |-> [m EXCEPT ![SlabGet(h, token)] = EasyGone("removed")]]

\* The Begin arm bound to activate_request(request); an Err drops the request.
RecvBeginActivate ==
    /\ pc = "recv"
    /\ queue # <<>>
    /\ Head(queue).type = "Begin"
    /\ \E outcome \in {"ok", "add2_err", "set_token_err"} :
           LET r   == Head(queue).arg
               out == activate_request(handles, multi, r, outcome)
           IN  /\ handles' = out.handles
               /\ multi' = out.multi
               /\ chan' = IF out.ok THEN chan ELSE [chan EXCEPT ![r] = "canceled"]
    /\ queue' = Tail(queue)
    /\ pending' = Processed(pending)
    /\ last' = Head(queue)
    /\ UNCHANGED <<pc, pipe, timeout, received_read, cpc, upc, stream, cb, pool>>

\* remove_handle(token) called between two iterations; the handle it returns
\* is dropped, and the completion sender with it.
RemoveHandle ==
    /\ pc = "get_timeout"
    /\ \E token \in Tokens :
           LET out == remove_handle(handles, multi, token)
           IN  IF out.panic
               THEN Unwind({})
               ELSE /\ handles' = out.handles
                    /\ multi' = out.multi
                    /\ chan' = [chan EXCEPT ![SlabGet(handles, token)] =
                                   IF @ = "open" THEN "canceled" ELSE @]
                    /\ UNCHANGED <<pc, queue, pipe>>
    /\ UNCHANGED <<timeout, received_read, cpc, upc, stream, pending, last, cb, pool>>

(***************************************************************************)
(* The engine's step inside multi.perform(): every running transfer may    *)
(* get one callback or finish.  A header callback that returns false, or a *)
(* write callback that takes fewer bytes than offered, fails the transfer. *)
(***************************************************************************)
Event(kind, arg) == [kind |-> kind, arg |-> arg]

AllEvents == {Event(k, a) : k \in {"none", "header", "write", "finish"}, a \in 0..MaxBody}

\* What the engine may do with the easy handle e in one step.  header 1 is
\* the next line of the response, header 0 a line that is none; finish 1 is
\* success, finish 0 a transfer error.
EngineEvents(e) ==
    IF e.st # "running" THEN {Event("none", 0)}
    ELSE {Event("none", 0), Event("finish", 0)}
         \cup (IF e.pos < Len(Script)
               THEN {Event("header", 0), Event("header", 1)}
               ELSE {Event("finish", 1)}
                    \cup (IF e.paused THEN {}
                          ELSE {Event("write", n) : n \in 1..(MaxBody - e.body)}))

EngineStep(e, ev) ==
    CASE ev.kind = "header" ->
             LET line == IF ev.arg = 1 THEN Script[e.pos + 1] ELSE Garbage
                 out  == header(e.ts, line)
                 e1   == [e EXCEPT !.ts = out.ts]
             IN  [panic |-> out.ret = "panic",
                  easy  |-> IF out.ret = "true"
                            THEN [e1 EXCEPT !.pos = e.pos + 1]
                            ELSE [e1 EXCEPT !.st = "done", !.res = "err"]]
      [] ev.kind = "write" ->
             LET out == write(e.ts, ev.arg)
                 e1  == [e EXCEPT !.ts = out.ts]
             IN  [panic |-> FALSE,
                  easy  |-> IF out.pause THEN [e1 EXCEPT !.paused = TRUE]
                            ELSE IF out.ret = ev.arg THEN [e1 EXCEPT !.body = e.body + ev.arg]
                            ELSE [e1 EXCEPT !.st = "done", !.res = "err"]]
      [] ev.kind = "finish" ->
             [panic |-> FALSE,
              easy  |-> [e EXCEPT !.st = "done", !.res = IF ev.arg = 1 THEN "ok" ELSE "err"]]
      [] OTHER -> [panic |-> FALSE, easy |-> e]

(***************************************************************************)
(* The completion branch of dispatch (manager.rs:102-115).  The closure    *)
(* given to multi.messages stores a transfer error in a local that is      *)
(* dropped and does nothing with the token: the message is consumed, the   *)
(* entry stays in `handles`, nothing is sent on the completion channel.    *)
(***************************************************************************)
CompletionClosure(e, c) == [easy |-> [e EXCEPT !.st = "msgread"], chan |-> c]

\* if (perform()? as usize) < self.handles.len() { multi.messages(closure) }
ReadsMessages(h, m) == Cardinality({r \in Reqs : m[r].st = "running"}) < h.len

PerformErr ==
    /\ pc = "perform"
    /\ pc' = "get_timeout"
    /\ UNCHANGED <<queue, pipe, timeout, received_read, handles, multi,
                   chan, cpc, upc, stream, pending, last, cb, pool>>

\* The engine's step as far as the table of handles sees it: a running
\* transfer runs on or finishes, with or without an error.
FinishEvents(e) ==
    IF e.st # "running" THEN {Event("none", 0)}
    ELSE {Event("none", 0), Event("finish", 0), Event("finish", 1)}

\* perform() succeeds, the engine having taken one step for each handle;
\* callbacks says whether the callbacks it makes are followed.
PerformWith(callbacks) ==
    /\ pc = "perform"
    /\ \E f \in [Reqs -> AllEvents] :
           /\ \A r \in Reqs :
                  f[r] \in IF callbacks THEN EngineEvents(multi[r]) ELSE FinishEvents(multi[r])
           /\ LET step == [r \in Reqs |-> EngineStep(multi[r], f[r])]
                  m1   == [r \in Reqs |-> step[r].easy]
                  read == ReadsMessages(handles, m1)
                  done == [r \in Reqs |-> read /\ m1[r].st = "done"]
              IN  IF \E r \in Reqs : step[r].panic
                  THEN Unwind({})
                  ELSE /\ multi' = [r \in Reqs |->
                                       IF done[r] THEN CompletionClosure(m1[r], chan[r]).easy
                                       ELSE m1[r]]
                       /\ chan' = [r \in Reqs |->
                                       IF done[r] THEN CompletionClosure(m1[r], chan[r]).chan
                                       ELSE chan[r]]
                       /\ pc' = "get_timeout"
                       /\ UNCHANGED <<queue, pipe, handles>>
    /\ UNCHANGED <<timeout, received_read, cpc, upc, stream, pending, last, cb, pool>>

PerformOk == PerformWith(TRUE)

PerformFinish == PerformWith(FALSE)

(***************************************************************************)
(* Callers.  Client::send blocks on send_async (client.rs:59-75):          *)
(* create_curl_request, a oneshot channel, manager.begin, then the         *)
(* receiver.  ManagerHandle::send (manager.rs:59-63) is two statements:    *)
(* the message is queued, then one byte is written to the pipe.            *)
(***************************************************************************)
\* send_async with manager.begin moved ahead of the check of the descriptor:
\* the Begin is on the queue when the build error is returned.
send_async_begin_before_build(q, r) == Append(q, Begin(r))

\* The command queue after send_async returned a build error: `?` on
\* create_curl_request (client.rs:64) leaves the function before the channel
\* is made and before manager.begin (client.rs:68), so nothing was sent.
send_async_build_err(q, r) == q

\* http::Request::get(uri).body(..)? in get/post/put/delete, or
\* create_curl_request(request, &self.options)? in send_async, fails
SendBuildErr(r) ==
    /\ cpc[r] = "idle"
    /\ cpc' = [cpc EXCEPT ![r] = "returned_err"]
    /\ queue' = send_async_build_err(queue, r)
    /\ UNCHANGED <<pipe, pc, timeout, received_read, handles, multi,
                   chan, upc, stream, pending, last, cb, pool>>

\* manager.begin(easy_handle, sender): Message::Begin through ManagerHandle::send.
\* message_sender.send(message)? fails once the receiver is gone.
begin(r) ==
    /\ cpc[r] = "idle"
    /\ ~SendInProgress
    /\ IF ReactorAlive
       THEN /\ Len(queue) < MaxQueue
            /\ queue' = Append(queue, Begin(r))
            /\ multi' = [multi EXCEPT ![r].st = "queued"]
            /\ chan' = [chan EXCEPT ![r] = "open"]
            /\ cpc' = [cpc EXCEPT ![r] = "notify"]
       ELSE /\ multi' = [multi EXCEPT ![r] = EasyGone("dropped")]
            /\ chan' = [chan EXCEPT ![r] = "canceled"]
            /\ cpc' = [cpc EXCEPT ![r] = "returned_err"]
            /\ UNCHANGED queue
    /\ UNCHANGED <<pipe, pc, timeout, received_read, handles, upc, stream,
                   pending, last, cb, pool>>

\* self.notify_writer.write(&[0])?: blocks while the pipe is full, fails once
\* the read end is closed.
NotifyWrite(p) == p + 1

SendNotify(r) ==
    /\ cpc[r] = "notify"
    /\ IF ReactorAlive
       THEN /\ pipe < MaxPipe
            /\ pipe' = NotifyWrite(pipe)
            /\ cpc' = [cpc EXCEPT ![r] = "waiting"]
       ELSE /\ cpc' = [cpc EXCEPT ![r] = "returned_err"]
            /\ UNCHANGED pipe
    /\ UNCHANGED <<queue, pc, timeout, received_read, handles, multi,
                   chan, upc, stream, pending, last, cb, pool>>

\* receiver.then(...): Ok(Ok(response)), Ok(Err(e)), or Err(canceled) =>
\* unimplemented!()
Receive(r) ==
    /\ cpc[r] = "waiting"
    /\ chan[r] \in {"response", "error", "canceled"}
    /\ cpc' = [cpc EXCEPT ![r] = CASE chan[r] = "response" -> "returned_ok"
                                   [] chan[r] = "error" -> "returned_err"
                                   [] OTHER -> "panicked"]
    /\ UNCHANGED <<queue, pipe, pc, timeout, received_read, handles, multi,
                   chan, upc, stream, pending, last, cb, pool>>

\* ManagerHandle::send(Message::Unpause(token)), first statement
UnpauseEnqueue ==
    /\ upc = "idle"
    /\ ~SendInProgress
    /\ ReactorAlive
    /\ Len(queue) < MaxQueue
    /\ \E token \in Tokens : queue' = Append(queue, Unpause(token))
    /\ upc' = "notify"
    /\ UNCHANGED <<pipe, pc, timeout, received_read, handles, multi,
                   chan, cpc, stream, pending, last, cb, pool>>

\* ... and second statement
UnpauseNotify ==
    /\ upc = "notify"
    /\ IF ReactorAlive
       THEN pipe < MaxPipe /\ pipe' = NotifyWrite(pipe)
       ELSE UNCHANGED pipe
    /\ upc' = "idle"
    /\ UNCHANGED <<queue, pc, timeout, received_read, handles, multi,
                   chan, cpc, stream, pending, last, cb, pool>>

\* TransferStream::read (manager.rs:270-278) with a buffer of n bytes:
\* Ok(0) for an empty buffer, unimplemented!() otherwise.
StreamRead ==
    /\ stream = "ready"
    /\ \E n \in 0..1 : stream' = IF n = 0 THEN "ready" ELSE "panicked"
    /\ UNCHANGED <<queue, pipe, pc, timeout, received_read, handles, multi,
                   chan, cpc, upc, pending, last, cb, pool>>

(***************************************************************************)
(* The callbacks of one transfer on their own: the engine hands            *)
(* Handler::header any line and Handler::write any chunk, for as long as   *)
(* no callback has failed the transfer.  cb.lines keeps the lines handed   *)
(* over so far.                                                            *)
(***************************************************************************)
\* a status line with each version token of the mapping
StatusHttp2 == <<"H", "T", "T", "P", "/", "2", ".", "0", " ", "2", "0", "0", "\r", "\n">>
StatusHttp10 == <<"H", "T", "T", "P", "/", "1", ".", "0", " ", "4", "0", "4", "\r", "\n">>
StatusHttp09 == <<"H", "T", "T", "P", "/", "0", ".", "9", " ", "2", "0", "0", "\r", "\n">>
\* an 8-byte version token the mapping does not know
StatusHttp12 == <<"H", "T", "T", "P", "/", "1", ".", "2", " ", "2", "0", "0", "\r", "\n">>
\* the status line of an HTTP/2 response as the engine writes it: the version
\* token has no minor part
StatusHttp2Short == <<"H", "T", "T", "P", "/", "2", " ", "2", "0", "0", " ", "\r", "\n">>
\* status lines without a status code StatusCode::from_str takes
StatusBadCode == <<"H", "T", "T", "P", "/", "1", ".", "1", " ", "2", "0", "x", "\r", "\n">>
StatusCode600 == <<"H", "T", "T", "P", "/", "1", ".", "1", " ", "6", "0", "0", "\r", "\n">>
\* status lines shorter than the 12 bytes the callback slices
StatusNoCode == <<"H", "T", "T", "P", "/", "1", ".", "1", "\r", "\n">>
StatusBare == <<"H", "T", "T", "P", "/">>
\* a status line that is not UTF-8
StatusNotUtf8 == <<"H", "T", "T", "P", "/", "1", ".", "1", " ", "2", "0", "0", " ", BadByte, "\r", "\n">>
\* header lines: a repeated name in another case, another name, no space
\* after the colon, a name that is no token, nothing after the colon
HeaderLower == <<"a", ":", " ", "c", "\r", "\n">>
HeaderOther == <<"B", ":", " ", "d", "\r", "\n">>
HeaderNoSpace == <<"A", ":", "b", "\r", "\n">>
HeaderBadName == <<"C", " ", ":", " ", "e", "\r", "\n">>
HeaderColonLast == <<"D", ":">>
\* a bare line feed
BareLf == <<"\n">>
\* a line that is not UTF-8 and neither status line nor header line
NotUtf8Line == <<BadByte, "\r", "\n">>

Lines == {ScriptStatus, StatusHttp2, StatusHttp10, StatusHttp09, StatusHttp12,
          StatusHttp2Short, StatusBadCode, StatusCode600, StatusNoCode, StatusBare,
          StatusNotUtf8, ScriptHeader, HeaderLower, HeaderOther, HeaderNoSpace,
          HeaderBadName, HeaderColonLast, CRLF, BareLf, NotUtf8Line, Garbage}

\* No callback has returned false (the engine then fails the transfer and
\* makes no more callbacks) or panicked.
CallbacksLive == cb.ret \in {"none", "true"}

HeaderCallback ==
    /\ CallbacksLive
    /\ Len(cb.lines) < MaxLines
    /\ \E line \in Lines :
           LET out == header(cb.ts, line)
           IN  cb' = [ts |-> out.ts, ret |-> out.ret, lines |-> Append(cb.lines, line)]
    /\ UNCHANGED <<queue, pipe, pc, timeout, received_read, handles, multi,
                   chan, cpc, upc, stream, pending, last, pool>>

WriteCallback ==
    /\ CallbacksLive
    /\ cb.ts.buffer < MaxBody
    /\ \E n \in 1..(MaxBody - cb.ts.buffer) :
           cb' = [cb EXCEPT !.ts = write(cb.ts, n).ts]
    /\ UNCHANGED <<queue, pipe, pc, timeout, received_read, handles, multi,
                   chan, cpc, upc, stream, pending, last, pool>>

(***************************************************************************)
(* The connection pool of the synchronous variant.  Its code (the module   *)
(* `transport` that client.rs imports) is not part of the source at hand;  *)
(* it is modelled from the design: acquire pops an idle Transport or       *)
(* creates one, release pushes it back, and a Stream releases the          *)
(* Transport it holds when its body is read to the end or when it is       *)
(* dropped, whichever is first.  Transports are numbered from 1 in the     *)
(* order they are created; a Stream that holds none has transport 0.       *)
(***************************************************************************)
\* acquire: pop a Transport from the idle list; if empty, create a new one
acquire(p) ==
    IF p.idle # <<>>
    THEN [transport |-> p.idle[Len(p.idle)],
          pool      |-> [p EXCEPT !.idle = SubSeq(p.idle, 1, Len(p.idle) - 1)]]
    ELSE [transport |-> p.created + 1,
          pool      |-> [p EXCEPT !.created = p.created + 1]]

\* release: push a Transport back onto the idle list; if the pool has been
\* torn down the Transport is discarded.
release(p, t) == IF p.alive THEN [p EXCEPT !.idle = Append(p.idle, t)] ELSE p

\* A Stream's release that does not give up the Transport it pushes back.
StreamReleaseKeepingTransport(p, i) ==
    IF p.streams[i].transport = 0 THEN p ELSE release(p, p.streams[i].transport)

\* The Stream i releases the Transport it holds, if it still holds one.
StreamRelease(p, i) ==
    IF p.streams[i].transport = 0 THEN p
    ELSE [release(p, p.streams[i].transport) EXCEPT !.streams[i].transport = 0]

\* send: check out a Transport and return a Stream over a body of n bytes
PoolSend ==
    /\ pool.alive
    /\ Len(pool.streams) < MaxStreams
    /\ \E n \in 0..MaxBody :
           LET a == acquire(pool)
           IN  pool' = [a.pool EXCEPT !.streams =
                           Append(a.pool.streams,
                                  [transport |-> a.transport, left |-> n, dropped |-> FALSE])]
    /\ UNCHANGED <<queue, pipe, pc, timeout, received_read, handles, multi,
                   chan, cpc, upc, stream, pending, last, cb>>

\* One read of the Stream i: a byte of the body, or the end of the body
PoolStreamRead(i) ==
    /\ ~pool.streams[i].dropped
    /\ pool' = IF pool.streams[i].left > 0
               THEN [pool EXCEPT !.streams[i].left = pool.streams[i].left - 1]
               ELSE StreamRelease(pool, i)
    /\ UNCHANGED <<queue, pipe, pc, timeout, received_read, handles, multi,
                   chan, cpc, upc, stream, pending, last, cb>>

\* The Stream i is dropped, wherever its reader stands
PoolStreamDrop(i) ==
    /\ ~pool.streams[i].dropped
    /\ pool' = [StreamRelease(pool, i) EXCEPT !.streams[i].dropped = TRUE]
    /\ UNCHANGED <<queue, pipe, pc, timeout, received_read, handles, multi,
                   chan, cpc, upc, stream, pending, last, cb>>

\* The client is dropped: the pool and its idle Transports go, the Streams
\* stay
PoolTeardown ==
    /\ pool.alive
    /\ pool' = [pool EXCEPT !.alive = FALSE, !.idle = <<>>]
    /\ UNCHANGED <<queue, pipe, pc, timeout, received_read, handles, multi,
                   chan, cpc, upc, stream, pending, last, cb>>

(***************************************************************************)
(* Specifications.                                                         *)
(***************************************************************************)
ReactorCommon ==
    \/ GetTimeoutErr
    \/ GetTimeoutOk
    \/ WaitErr
    \/ WaitOk
    \/ ConsumeNotify
    \/ RecvEmpty
    \/ RecvUnpause
    \/ PerformErr

Callers ==
    \/ \E r \in Reqs : SendBuildErr(r)
    \/ \E r \in Reqs : begin(r)
    \/ \E r \in Reqs : SendNotify(r)
    \/ \E r \in Reqs : Receive(r)
    \/ UnpauseEnqueue
    \/ UnpauseNotify

Next == ReactorCommon \/ PerformOk \/ RecvBegin \/ Callers \/ StreamRead

Spec == Init /\ [][Next]_vars

NextActivate == ReactorCommon \/ PerformOk \/ RecvBeginActivate \/ RemoveHandle \/ Callers

SpecActivate == Init /\ [][NextActivate]_vars

(***************************************************************************)
(* SpecManager: the Reactor of SpecActivate and its table of handles, with *)
(* what the table does not depend on left out.  Messages are put on the    *)
(* queue (the first statement of ManagerHandle::send) without the wake     *)
(* byte and without a caller waiting for a completion, and the engine's    *)
(* callbacks, which change only a transfer's TransferState, are not        *)
(* followed.                                                               *)
(***************************************************************************)
\* message_sender.send(Message::Begin(IncomingRequest::new()))
EnqueueBegin ==
    /\ ReactorAlive
    /\ Len(queue) < MaxQueue
    /\ \E r \in Reqs :
           /\ multi[r].st = "new"
           /\ queue' = Append(queue, Begin(r))
           /\ multi' = [multi EXCEPT ![r].st = "queued"]
    /\ UNCHANGED <<pipe, pc, timeout, received_read, handles, chan, cpc, upc,
                   stream, pending, last, cb, pool>>

\* message_sender.send(Message::Unpause(token))
EnqueueUnpause ==
    /\ ReactorAlive
    /\ Len(queue) < MaxQueue
    /\ \E token \in Tokens : queue' = Append(queue, Unpause(token))
    /\ UNCHANGED <<pipe, pc, timeout, received_read, handles, multi, chan, cpc, upc,
                   stream, pending, last, cb, pool>>

NextManager ==
    \/ ReactorCommon
    \/ PerformFinish
    \/ RecvBeginActivate
    \/ RemoveHandle
    \/ EnqueueBegin
    \/ EnqueueUnpause

SpecManager == Init /\ [][NextManager]_vars

(***************************************************************************)
(* SpecLive: Spec with the Reactor thread kept running.  The thread is     *)
(* scheduled again and again, every call of an iteration returns (the wait *)
(* is bounded by its timeout), and the engine's calls do not fail for      *)
(* ever: get_timeout, which stays available while it fails, succeeds in    *)
(* the end (weak fairness), and so does wait, to which every failure of    *)
(* its own leads back (strong fairness).                                   *)
(***************************************************************************)
ReactorFairness ==
    /\ WF_vars(GetTimeoutOk)
    /\ SF_vars(WaitOk)
    /\ WF_vars(ConsumeNotify)
    /\ WF_vars(RecvEmpty \/ RecvUnpause \/ RecvBegin)
    /\ WF_vars(PerformOk \/ PerformErr)

SpecLive == Spec /\ ReactorFairness

\* SpecHeader: the header and write callbacks of one transfer, fed freely.
NextHeader == HeaderCallback \/ WriteCallback

SpecHeader == Init /\ [][NextHeader]_vars

\* SpecPool: the pool and the Streams of up to MaxStreams sends.
NextPool ==
    \/ PoolSend
    \/ \E i \in 1..Len(pool.streams) : PoolStreamRead(i)
    \/ \E i \in 1..Len(pool.streams) : PoolStreamDrop(i)
    \/ PoolTeardown

SpecPool == Init /\ [][NextPool]_vars

(***************************************************************************)
(* Claims.                                                                 *)
(***************************************************************************)
IsPrefix(a, b) == Len(a) <= Len(b) /\ SubSeq(b, 1, Len(a)) = a

\* The Reactor takes a message off the queue in this step (no other thread
\* ever shortens the queue).
Dequeues == pc = "recv" /\ queue # <<>> /\ Len(queue') < Len(queue)

C3_BeginRegisters ==
    [][(Dequeues /\ Head(queue).type = "Begin") =>
          LET r == Head(queue).arg
          IN  /\ ReactorAlive'
              /\ multi'[r].st = "running"
              /\ SlabContains(handles', multi'[r].token)
              /\ SlabGet(handles', multi'[r].token) = r
              /\ \A o \in Reqs \ {r} :
                     multi'[o].st \in {"running", "done", "msgread"}
                         => multi'[o].token # multi'[r].token]_vars

C5_DrainsAllInOrder ==
    /\ pc = "recv" => IsPrefix(pending, queue)
    /\ pc # "recv" => pending = <<>>

\* C6: the wake-drain step of an iteration that saw the pipe readable leaves
\* no unread wake byte in the pipe, however many were written.
C6_WakeDrainedFully ==
    [][(pc = "notify" /\ received_read /\ pc' = "recv") => pipe' = 0]_vars

C8_LoopNeverTerminates ==
    pc \in {"get_timeout", "wait", "notify", "recv", "perform"}

C11_UnreachableReactorIsError ==
    \A r \in Reqs : chan[r] = "canceled" => cpc[r] \notin {"panicked", "returned_ok"}

HeaderStep == Len(cb'.lines) = Len(cb.lines) + 1

LineHanded == cb'.lines[Len(cb'.lines)]

\* The 1-based position of the first space of a line, 0 if it has none.
FirstSpace(line) ==
    IF \E i \in 1..Len(line) : line[i] = " "
    THEN CHOOSE i \in 1..Len(line) : line[i] = " " /\ \A j \in 1..(i - 1) : line[j] # " "
    ELSE 0

\* The version token of a status line (what precedes its first space) and
\* the three bytes that follow that space.
VersionToken(line) == SubSeq(line, 1, FirstSpace(line) - 1)

CodeAfterToken(line) == SubSeq(line, FirstSpace(line) + 1, FirstSpace(line) + 3)

\* "HTTP/<version> <3-digit status code> ...", in UTF-8
IsStatusLineWithCode(line) ==
    /\ IsUtf8(line)
    /\ StartsWith(line, HTTP_PREFIX)
    /\ FirstSpace(line) > 0
    /\ Len(line) >= FirstSpace(line) + 3
    /\ StatusFromStr(CodeAfterToken(line)) # 0

\* C13: a call of the header callback with a line "HTTP/<version> <valid
\* 3-digit status code> ..." returns true and leaves recorded the status
\* code of the line and the version the fixed mapping gives its version
\* token (the default for a token the mapping does not know).
C13_StatusLineParsed ==
    [][(HeaderStep /\ IsStatusLineWithCode(LineHanded)) =>
          /\ cb'.ret = "true"
          /\ cb'.ts.response.status = StatusFromStr(CodeAfterToken(LineHanded))
          /\ cb'.ts.response.version = ParseVersion(VersionToken(LineHanded))]_vars

\* The header collection as its (name, value) entries, in the order the map
\* yields them.
RECURSIVE Flatten(_)
Flatten(h) ==
    IF h = <<>> THEN <<>>
    ELSE [i \in 1..Len(Head(h).values) |->
              [name |-> Head(h).name, value |-> Head(h).values[i]]] \o Flatten(Tail(h))

\* A colon-bearing line of the header section.
IsHeaderLine(line) == ~StartsWith(line, HTTP_PREFIX) /\ FindColon(line) >= 0

\* The entry such a line stands for: the text before the first colon (header
\* names compare without case) and the trimmed text after that colon.
ExpectedEntry(line) ==
    [name  |-> LowerName(SubSeq(line, 1, FindColon(line))),
     value |-> Trim(SubSeq(line, FindColon(line) + 2, Len(line)))]

RECURSIVE ExpectedHeaders(_)
ExpectedHeaders(lines) ==
    IF lines = <<>> THEN <<>>
    ELSE (IF IsHeaderLine(Head(lines)) THEN <<ExpectedEntry(Head(lines))>> ELSE <<>>)
         \o ExpectedHeaders(Tail(lines))

\* C14: as long as every line handed over was accepted, the header
\* collection holds one entry per colon-bearing line, in receipt order,
\* duplicate names kept, each with the line's name and trimmed value.
C14_HeadersInReceiptOrder ==
    CallbacksLive => Flatten(cb.ts.response.headers) = ExpectedHeaders(cb.lines)

\* The Streams that hold the Transport t, and the places t has in the idle
\* list.
Holders(t) == {i \in 1..Len(pool.streams) : pool.streams[i].transport = t}

IdlePlaces(t) == {i \in 1..Len(pool.idle) : pool.idle[i] = t}

\* C15: every Transport created is held by at most one Stream or is once in
\* the idle list, never both and never twice; while the pool lives a
\* Transport is always at exactly one of those places (a Stream that has
\* read its body to the end or was dropped has returned it), and a dropped
\* Stream holds none.
C15_TransportReturnedOnce ==
    /\ \A t \in 1..pool.created :
           /\ Cardinality(Holders(t)) + Cardinality(IdlePlaces(t)) <= 1
           /\ pool.alive => Cardinality(Holders(t)) + Cardinality(IdlePlaces(t)) = 1
    /\ \A i \in 1..Len(pool.streams) :
           pool.streams[i].dropped => pool.streams[i].transport = 0

\* C15's case: a Stream read its body to the end and was then dropped, its
\* Transport was checked out again by a later send while a third Stream
\* holds another one.
C15_Witness ==
    /\ Len(pool.streams) = 3
    /\ pool.created = 2
    /\ pool.streams[1].dropped
    /\ pool.streams[1].left = 0
    /\ pool.streams[2].transport = 2
    /\ pool.streams[3].transport = 1
    /\ pool.alive

\* The transfers that have an entry in Manager.handles.
TableEntries == {SlabGet(handles, k) : k \in {t \in Tokens : SlabContains(handles, t)}}

StatusLineAccepted == \E i \in 1..Len(cb.lines) : StartsWith(cb.lines[i], HTTP_PREFIX)

\* C17: a callback adds to the header collection only after a status line
\* was accepted and before the header section is complete; once the header
\* section is complete it stays complete and no callback changes the
\* recorded status, version or headers.
C17_HandlerMovesForward ==
    [][/\ cb'.ts.response.headers # cb.ts.response.headers =>
              (StatusLineAccepted /\ ~cb.ts.header_complete)
       /\ cb.ts.header_complete =>
              (cb'.ts.header_complete /\ cb'.ts.response = cb.ts.response)]_vars

\* A malformed status line: it starts with "HTTP/" and is not UTF-8, or is
\* too short to hold a status code at bytes 9..12, or holds none there that
\* StatusCode::from_str takes.
IsMalformedStatusLine(line) ==
    /\ StartsWith(line, HTTP_PREFIX)
    /\ \/ ~IsUtf8(line)
       \/ Len(line) < 12
       \/ StatusFromStr(SubSeq(line, 10, 12)) = 0

\* C18: a call of the header callback with a malformed status line returns
\* false (it does not panic, and it does not accept the line).
C18_MalformedStatusRejected ==
    [][(HeaderStep /\ IsMalformedStatusLine(LineHanded)) => cb'.ret = "false"]_vars

\* A line that is neither a status line, nor colon-bearing, nor the
\* terminator.
IsUnknownLine(line) ==
    /\ ~StartsWith(line, HTTP_PREFIX)
    /\ FindColon(line) < 0
    /\ line # CRLF

\* C19: a call of the header callback with the line "\r\n" returns true and
\* marks the header section complete; a call with a line that is neither
\* status line, nor colon-bearing, nor the terminator returns false and
\* leaves status, version, headers and the header-complete flag as they
\* were.
C19_TerminatorAndUnknownLines ==
    [][HeaderStep =>
          /\ LineHanded = CRLF => (cb'.ret = "true" /\ cb'.ts.header_complete)
          /\ IsUnknownLine(LineHanded) => (cb'.ret = "false" /\ cb'.ts = cb.ts)]_vars

\* C19's case: after a status line the terminator was accepted and marked
\* the header section complete, and the unrecognized line that followed was
\* rejected.
C19_Witness ==
    /\ Len(cb.lines) = 3
    /\ cb.lines[1] = ScriptStatus
    /\ cb.lines[2] = CRLF
    /\ IsUnknownLine(cb.lines[3])
    /\ cb.ts.header_complete
    /\ cb.ts.response.status = 204
    /\ cb.ret = "false"

\* The commands ManagerHandle::send can put on the queue.
Messages == {Begin(r) : r \in Reqs} \cup {Unpause(token) : token \in Tokens}

InQueue(m) == \E i \in 1..Len(queue) : queue[i] = m

\* C20: with the Reactor thread kept running, every command on the queue is
\* eventually the command the Reactor has just taken off the queue and
\* processed, the Reactor running on.
C20_EveryCommandProcessed ==
    \A m \in Messages : InQueue(m) ~> (last = m /\ ReactorAlive)

====
